---- MODULE Spec2Model ----
(***************************************************************************)
(* Model of version_checker.py: the per-package pipeline                   *)
(*   get_installed_version -> get_latest_version -> Version(..) < Version  *)
(*   -> update_package                                                     *)
(* driven by main() for one --package or for every name extracted from a   *)
(* requirements file.  Strings are sequences of one-character strings so   *)
(* that the regular expressions, str.strip, str.startswith, str.split and  *)
(* the version parser are computed character by character.                 *)
(***************************************************************************)
EXTENDS Integers, Sequences, FiniteSets, TLC

VARIABLES args, file, pc, packages, idx, result, results, exc, out, calls

vars == <<args, file, pc, packages, idx, result, results, exc, out, calls>>

(***************************************************************************)
(* Bounds                                                                  *)
(***************************************************************************)
\* longest requirements file (in lines) that Init draws
MaxLines == 2

(***************************************************************************)
(* Optional[str]: None is the empty tuple, a value v is <<v>>              *)
(***************************************************************************)
None == <<>>

Some(v) == <<v>>

IsNone(o) == o = None

Val(o) == o[1]

(***************************************************************************)
(* Character classes of the two regular expressions (lines 22-23)          *)
(***************************************************************************)
Digits == {"0", "1", "2", "3", "4", "5", "6", "7", "8", "9"}

Letters ==
  {"a", "b", "c", "d", "e", "f", "g", "h", "i", "j", "k", "l", "m",
   "n", "o", "p", "q", "r", "s", "t", "u", "v", "w", "x", "y", "z",
   "A", "B", "C", "D", "E", "F", "G", "H", "I", "J", "K", "L", "M",
   "N", "O", "P", "Q", "R", "S", "T", "U", "V", "W", "X", "Y", "Z"}

\* [A-Za-z0-9]
Alnum == Letters \cup Digits

\* [A-Za-z0-9._-]
NameChars == Alnum \cup {".", "_", "-"}

\* what str.strip() removes
Whitespace == {" ", "\t", "\n", "\r"}

(***************************************************************************)
(* String helpers                                                          *)
(***************************************************************************)
RECURSIVE LStrip(_)
LStrip(s) ==
  IF s # <<>> /\ Head(s) \in Whitespace THEN LStrip(Tail(s)) ELSE s

RECURSIVE RStrip(_)
RStrip(s) ==
  IF s # <<>> /\ s[Len(s)] \in Whitespace
  THEN RStrip(SubSeq(s, 1, Len(s) - 1))
  ELSE s

\* str.strip()
Strip(s) == RStrip(LStrip(s))

\* str.startswith(p)
StartsWith(s, p) == Len(s) >= Len(p) /\ SubSeq(s, 1, Len(p)) = p

\* s.split(":", 1)[1] for a string that holds a colon
AfterFirstColon(s) ==
  LET k == CHOOSE j \in 1..Len(s) : s[j] = ":" /\ \A m \in 1..(j - 1) : s[m] # ":"
  IN  SubSeq(s, k + 1, Len(s))

\* [A-Za-z0-9]([A-Za-z0-9._-]*[A-Za-z0-9])? over the whole of s
IsName(s) ==
  /\ Len(s) >= 1
  /\ s[1] \in Alnum
  /\ s[Len(s)] \in Alnum
  /\ \A k \in 1..Len(s) : s[k] \in NameChars

\* the mutant of ValidPackageName: the validation is dropped
ValidPackageNameDropped(package) == TRUE

\* _VALID_PACKAGE_NAME.match(package): ^name$; Python's $ also matches just
\* before one trailing newline
ValidPackageName(package) ==
  \/ IsName(package)
  \/ /\ Len(package) >= 2
     /\ package[Len(package)] = "\n"
     /\ IsName(SubSeq(package, 1, Len(package) - 1))

\* the mutant of RequirementName: the whole run of name characters is taken,
\* also when it ends in '.', '_' or '-'
RequirementNameRun(line) ==
  IF line = <<>> \/ line[1] \notin Alnum
  THEN None
  ELSE LET ends == {k \in 1..Len(line) : \A m \in 1..k : line[m] \in NameChars}
           k == CHOOSE e \in ends : \A f \in ends : f <= e
       IN  Some(SubSeq(line, 1, k))

\* _REQUIREMENT_LINE.match(line).group(1), None when there is no match.
\* The match is anchored at the start; group 1 is greedy, so it is the longest
\* prefix of name characters that starts and ends with an alphanumeric; the
\* rest of the pattern, (\[.*?\])?[^;]*, matches the empty string.
RequirementName(line) ==
  IF line = <<>> \/ line[1] \notin Alnum
  THEN None
  ELSE LET ends == {k \in 1..Len(line) :
                      /\ \A m \in 1..k : line[m] \in NameChars
                      /\ line[k] \in Alnum}
           k == CHOOSE e \in ends : \A f \in ends : f <= e
       IN  Some(SubSeq(line, 1, k))

\* lines 115-117: the line is kept unless it is blank or a comment
KeepLine(stripped) == stripped # <<>> /\ ~StartsWith(stripped, <<"#">>)

\* lines 113-120: the names a requirements file yields, in file order
RECURSIVE ExtractPackages(_)
ExtractPackages(lines) ==
  IF lines = <<>>
  THEN <<>>
  ELSE LET line == Strip(Head(lines))
           m == IF KeepLine(line) THEN RequirementName(line) ELSE None
       IN  (IF IsNone(m) THEN <<>> ELSE <<Val(m)>>) \o ExtractPackages(Tail(lines))

\* lines 125-127: "if package:" keeps the non-empty names
Truthy(s) == s # <<>>

(***************************************************************************)
(* get_installed_version's scan of pip's output (lines 35-37, 40)          *)
(***************************************************************************)
VersionPrefix == <<"V", "e", "r", "s", "i", "o", "n", ":">>

RECURSIVE ScanVersion(_)
ScanVersion(lines) ==
  IF lines = <<>>
  THEN None
  ELSE IF StartsWith(Head(lines), VersionPrefix)
       THEN Some(Strip(AfterFirstColon(Head(lines))))
       ELSE ScanVersion(Tail(lines))

(***************************************************************************)
(* packaging.version.Version for release-only versions, "N(.N)*": the      *)
(* strings the model feeds it are either of that form or hold a character  *)
(* no PEP 440 label starts with, which Version rejects with InvalidVersion *)
(***************************************************************************)
DigitValue(c) ==
  CASE c = "0" -> 0 [] c = "1" -> 1 [] c = "2" -> 2 [] c = "3" -> 3
    [] c = "4" -> 4 [] c = "5" -> 5 [] c = "6" -> 6 [] c = "7" -> 7
    [] c = "8" -> 8 [] c = "9" -> 9

RECURSIVE ParseInt(_)
ParseInt(s) ==
  IF s = <<>> THEN 0
  ELSE 10 * ParseInt(SubSeq(s, 1, Len(s) - 1)) + DigitValue(s[Len(s)])

\* split on "."
RECURSIVE SplitDots(_, _)
SplitDots(s, cur) ==
  IF s = <<>> THEN <<cur>>
  ELSE IF Head(s) = "." THEN <<cur>> \o SplitDots(Tail(s), <<>>)
       ELSE SplitDots(Tail(s), Append(cur, Head(s)))

\* the version pattern accepts the stripped string
IsRelease(s) ==
  LET parts == SplitDots(Strip(s), <<>>)
  IN  \A k \in 1..Len(parts) :
        parts[k] # <<>> /\ \A m \in 1..Len(parts[k]) : parts[k][m] \in Digits

\* Version(s).release, a tuple of integers
Release(s) ==
  LET parts == SplitDots(Strip(s), <<>>)
  IN  [k \in 1..Len(parts) |-> ParseInt(parts[k])]

\* Version._key drops the trailing zeros of the release
RECURSIVE DropTrailingZeros(_)
DropTrailingZeros(r) ==
  IF r # <<>> /\ r[Len(r)] = 0
  THEN DropTrailingZeros(SubSeq(r, 1, Len(r) - 1))
  ELSE r

\* Python's tuple ordering
RECURSIVE TupleLess(_, _)
TupleLess(a, b) ==
  IF a = <<>> THEN b # <<>>
  ELSE IF b = <<>> THEN FALSE
  ELSE IF Head(a) # Head(b) THEN Head(a) < Head(b)
  ELSE TupleLess(Tail(a), Tail(b))

\* the order of the characters the versions are written in
CharRank(c) == IF c = "." THEN 0 ELSE 1 + DigitValue(c)

\* the mutant of VersionLess: the strings are compared, not the versions
RECURSIVE StringLess(_, _)
StringLess(a, b) ==
  IF a = <<>> THEN b # <<>>
  ELSE IF b = <<>> THEN FALSE
  ELSE IF Head(a) # Head(b) THEN CharRank(Head(a)) < CharRank(Head(b))
  ELSE StringLess(Tail(a), Tail(b))

\* line 92: Version(installed) < Version(latest)
VersionLess(installed, latest) ==
  TupleLess(DropTrailingZeros(Release(installed)), DropTrailingZeros(Release(latest)))

(***************************************************************************)
(* The inputs a run is started with and the answers of its collaborators   *)
(***************************************************************************)
Requests == <<"r", "e", "q", "u", "e", "s", "t", "s">>

Flask == <<"f", "l", "a", "s", "k">>

MyPkg == <<"m", "y", "_", "p", "k", "g">>

\* values of --package: a plain name, the empty string, a name the pattern
\* rejects, and a name with a trailing newline (which the pattern accepts)
PackageArgs == {Requests, <<>>, <<"-", "e">>, Requests \o <<"\n">>}

RequirementsPath ==
  <<"r", "e", "q", "u", "i", "r", "e", "m", "e", "n", "t", "s", ".", "t", "x", "t">>

\* requests[security]>=2.0; python_version>="3.6"
LineExtras ==
  <<"r", "e", "q", "u", "e", "s", "t", "s", "[", "s", "e", "c", "u", "r", "i",
    "t", "y", "]", ">", "=", "2", ".", "0", ";", " ", "p", "y", "t", "h", "o",
    "n", "_", "v", "e", "r", "s", "i", "o", "n", ">", "=", "\"", "3", ".", "6",
    "\"">>

\* "  flask==1.10.0  "
LinePinned ==
  <<" ", " ", "f", "l", "a", "s", "k", "=", "=", "1", ".", "1", "0", ".", "0",
    " ", " ">>

\* "  # pinned"
LineComment == <<" ", " ", "#", " ", "p", "i", "n", "n", "e", "d">>

\* a line of blanks
LineBlank == <<" ", "\t">>

\* "-r base.txt"
LineOption == <<"-", "r", " ", "b", "a", "s", "e", ".", "t", "x", "t">>

\* "my_pkg_"
LineTrailing == <<"m", "y", "_", "p", "k", "g", "_">>

LineSet == {LineExtras, LinePinned, LineComment, LineBlank, LineOption, LineTrailing}

RECURSIVE SeqsUpTo(_, _)
SeqsUpTo(S, n) ==
  IF n = 0 THEN {<<>>}
  ELSE LET shorter == SeqsUpTo(S, n - 1)
       IN  shorter \cup {Append(q, x) : q \in shorter, x \in S}

V120 == <<"1", ".", "2", ".", "0">>

V130 == <<"1", ".", "3", ".", "0">>

V190 == <<"1", ".", "9", ".", "0">>

V1100 == <<"1", ".", "1", "0", ".", "0">>

V200 == <<"2", ".", "0", ".", "0">>

\* the outputs "pip show" prints when it exits 0
ShowStdouts ==
  { <<<<"N", "a", "m", "e", ":", " ", "x">>, VersionPrefix \o <<" ">> \o V120>>,
    <<<<"M", "e", "t", "a", "d", "a", "t", "a", "-">> \o VersionPrefix \o <<" ", "2", ".", "1">>,
      <<"N", "a", "m", "e", ":", " ", "x">>>>,
    <<VersionPrefix \o V1100 \o <<" ">>, VersionPrefix \o <<" ">> \o V200>>,
    <<VersionPrefix \o <<" ">> \o V200>>,
    <<VersionPrefix \o <<" ", "1", ".", "x">>>> }

\* what subprocess.run(..., check=True) can do: return, raise
\* CalledProcessError on a non-zero exit, raise OSError when the interpreter
\* cannot be started
ShowOutcomes ==
  {[raises |-> "none", stdout |-> s] : s \in ShowStdouts}
    \cup {[raises |-> e, stdout |-> <<>>] : e \in {"CalledProcessError", "OSError"}}

UpdateOutcomes == {"none", "CalledProcessError", "OSError"}

\* what the GET and the body can be
Responses ==
  {[kind |-> k, version |-> None] :
      k \in {"url_error", "read_timeout", "not_utf8", "not_json", "json_array",
             "no_info", "info_null", "no_version", "version_null"}}
    \cup {[kind |-> "ok", version |-> Some(v)] : v \in {V130, V190, V200}}

\* lines 49-51: the exception urlopen, read().decode(), json.loads and the two
\* subscripts raise on each response, "none" when line 51 returns
FetchRaises(r) ==
  CASE r.kind = "url_error" -> "URLError"
    [] r.kind = "read_timeout" -> "TimeoutError"
    [] r.kind = "not_utf8" -> "UnicodeDecodeError"
    [] r.kind = "not_json" -> "JSONDecodeError"
    [] r.kind = "json_array" -> "TypeError"
    [] r.kind = "no_info" -> "KeyError"
    [] r.kind = "info_null" -> "TypeError"
    [] r.kind = "no_version" -> "KeyError"
    [] OTHER -> "none"

\* the except clauses
ShowCaught == {"CalledProcessError"}

LatestCaught == {"URLError", "JSONDecodeError", "KeyError"}

UpdateCaught == {"CalledProcessError"}

\* the mutant of OpenCaught: the except clause is missing
OpenCaughtNothing == {}

OpenCaught == {"FileNotFoundError"}

(***************************************************************************)
(* State                                                                   *)
(***************************************************************************)
NoExc == [type |-> "none", raised_in |-> "none"]

NewResult(package) ==
  [package |-> package, installed |-> None, latest |-> None,
   update_available |-> FALSE, updated |-> FALSE]

NoResult == NewResult(<<>>)

Say(msg, package, n) == [msg |-> msg, package |-> package, n |-> n]

Call(op, package, ok) == [op |-> op, package |-> package, at |-> idx, ok |-> ok]

Files ==
  {[status |-> s, lines |-> <<>>] : s \in {"missing", "denied"}}
    \cup {[status |-> "ok", lines |-> l] : l \in SeqsUpTo(LineSet, MaxLines)}

\* argparse: exactly one of --package and --requirements, --update optional
Init ==
  /\ \E u \in BOOLEAN :
       \/ \E p \in PackageArgs :
            /\ args = [package |-> Some(p), requirements |-> None, update |-> u]
            /\ file = [status |-> "missing", lines |-> <<>>]
       \/ /\ args = [package |-> None, requirements |-> Some(RequirementsPath), update |-> u]
          /\ file \in Files
  /\ pc = "main"
  /\ packages = <<>>
  /\ idx = 0
  /\ result = NoResult
  /\ results = <<>>
  /\ exc = NoExc
  /\ out = <<>>
  /\ calls = <<>>

\* an exception leaves the function and nothing catches it: the run ends
Crash(type, fn) ==
  /\ pc' = "crashed"
  /\ exc' = [type |-> type, raised_in |-> fn]

\* check_package returns r: the caller appends it and goes on to the next
\* package, or to the summary after the last one
Return(r) ==
  /\ results' = Append(results, r)
  /\ exc' = exc
  /\ IF idx < Len(packages)
     THEN /\ idx' = idx + 1
          /\ result' = NewResult(packages[idx + 1])
          /\ pc' = "show"
     ELSE /\ idx' = idx
          /\ result' = NoResult
          /\ pc' = "summary"

\* lines 149-153
Main ==
  /\ pc = "main"
  /\ out' = Append(out, Say("Checking for updates...", <<>>, 0))
  /\ IF ~IsNone(args.package) /\ Truthy(Val(args.package))
     THEN /\ packages' = <<Val(args.package)>>
          /\ idx' = 1
          /\ result' = NewResult(Val(args.package))
          /\ pc' = "show"
     ELSE /\ pc' = "read"
          /\ UNCHANGED <<packages, idx, result>>
  /\ UNCHANGED <<args, file, results, exc, calls>>

\* open(filepath) at line 112
OpenRaises ==
  IF IsNone(args.requirements) THEN "TypeError"
  ELSE IF file.status = "missing" THEN "FileNotFoundError"
  ELSE IF file.status = "denied" THEN "PermissionError"
  ELSE "none"

\* lines 108-128, up to the first check_package
CheckRequirementsFile ==
  /\ pc = "read"
  /\ LET raised == OpenRaises
     IN  IF raised = "none"
         THEN LET names == SelectSeq(ExtractPackages(file.lines), Truthy)
              IN  /\ packages' = names
                  /\ IF names = <<>>
                     THEN /\ pc' = "summary"
                          /\ UNCHANGED <<idx, result>>
                     ELSE /\ pc' = "show"
                          /\ idx' = 1
                          /\ result' = NewResult(names[1])
                  /\ UNCHANGED <<exc, out>>
         ELSE IF raised \in OpenCaught
         THEN /\ out' = Append(out, Say("Error: requirements file not found.",
                                        Val(args.requirements), 0))
              /\ pc' = "summary"
              /\ UNCHANGED <<packages, idx, result, exc>>
         ELSE /\ Crash(raised, "check_requirements_file")
              /\ UNCHANGED <<packages, idx, result, out>>
  /\ UNCHANGED <<args, file, results, calls>>

\* the mutant of NotInstalled: the early return of line 83 is lost
NotInstalledNever(installed) == FALSE

\* line 81: installed is None
NotInstalled(installed) == IsNone(installed)

\* get_installed_version (lines 26-40) and lines 78-83 of check_package
GetInstalledVersion ==
  /\ pc = "show"
  /\ \E o \in ShowOutcomes :
       /\ calls' = Append(calls, Call("show", result.package, o.raises = "none"))
       /\ IF o.raises # "none" /\ o.raises \notin ShowCaught
          THEN /\ Crash(o.raises, "get_installed_version")
               /\ UNCHANGED <<idx, result, results, out>>
          ELSE LET installed == IF o.raises = "none" THEN ScanVersion(o.stdout) ELSE None
                   r == [result EXCEPT !.installed = installed]
               IN  IF NotInstalled(installed)
                   THEN /\ out' = Append(out, Say("not installed", r.package, 0))
                        /\ Return(r)
                   ELSE /\ result' = r
                        /\ pc' = "fetch"
                        /\ UNCHANGED <<idx, results, exc, out>>
  /\ UNCHANGED <<args, file, packages>>

\* get_latest_version (lines 43-53) and lines 85-90 of check_package
GetLatestVersion ==
  /\ pc = "fetch"
  /\ IF ~ValidPackageName(result.package)
     THEN /\ out' = Append(out, Say("could not fetch latest version", result.package, 0))
          /\ Return(result)
          /\ UNCHANGED calls
     ELSE \E resp \in Responses :
            LET raised == FetchRaises(resp)
            IN  /\ calls' = Append(calls, Call("get", result.package, raised = "none"))
                /\ IF raised # "none" /\ raised \notin LatestCaught
                   THEN /\ Crash(raised, "get_latest_version")
                        /\ UNCHANGED <<idx, result, results, out>>
                   ELSE LET latest == IF raised = "none" THEN resp.version ELSE None
                            r == [result EXCEPT !.latest = latest]
                        IN  IF IsNone(latest)
                            THEN /\ out' = Append(out, Say("could not fetch latest version",
                                                           r.package, 0))
                                 /\ Return(r)
                            ELSE /\ result' = r
                                 /\ pc' = "compare"
                                 /\ UNCHANGED <<idx, results, exc, out>>
  /\ UNCHANGED <<args, file, packages>>

\* the exception the two Version(..) calls of line 92 raise, "none" when both
\* strings parse
VersionRaises(installed, latest) ==
  IF IsNone(installed) \/ IsNone(latest) THEN "TypeError"
  ELSE IF ~IsRelease(Val(installed)) \/ ~IsRelease(Val(latest)) THEN "InvalidVersion"
  ELSE "none"

\* the mutant of DoUpdate: the upgrade no longer waits for --update
DoUpdateAlways(do_update) == TRUE

\* line 95: if do_update
DoUpdate(do_update) == do_update

\* lines 92-95 and 102-105 of check_package
CompareVersions ==
  /\ pc = "compare"
  /\ LET raised == VersionRaises(result.installed, result.latest)
     IN  IF raised # "none"
         THEN /\ Crash(raised, "check_package")
              /\ UNCHANGED <<idx, result, results, out>>
         ELSE IF VersionLess(Val(result.installed), Val(result.latest))
         THEN /\ out' = Append(out, Say("update available", result.package, 0))
              /\ IF DoUpdate(args.update)
                 THEN /\ result' = [result EXCEPT !.update_available = TRUE]
                      /\ pc' = "upgrade"
                      /\ UNCHANGED <<idx, results, exc>>
                 ELSE Return([result EXCEPT !.update_available = TRUE])
         ELSE /\ out' = Append(out, Say("up to date", result.package, 0))
              /\ Return(result)
  /\ UNCHANGED <<args, file, packages, calls>>

\* update_package (lines 56-65) and lines 96-101, 105 of check_package
UpdatePackage ==
  /\ pc = "upgrade"
  /\ \E raised \in UpdateOutcomes :
       /\ calls' = Append(calls, Call("upgrade", result.package, raised = "none"))
       /\ IF raised # "none" /\ raised \notin UpdateCaught
          THEN /\ Crash(raised, "update_package")
               /\ UNCHANGED <<idx, result, results, out>>
          ELSE LET success == raised = "none"
               IN  /\ out' = Append(out, Say(IF success THEN "updated successfully"
                                                        ELSE "update failed",
                                             result.package, 0))
                   /\ Return([result EXCEPT !.updated = success])
  /\ UNCHANGED <<args, file, packages>>

\* the mutant of UpdatesAvailable: the upgrades that succeeded are counted
UpdatesApplied(rs) == Cardinality({k \in 1..Len(rs) : rs[k].updated})

\* line 155: sum(1 for r in results if r["update_available"])
UpdatesAvailable(rs) == Cardinality({k \in 1..Len(rs) : rs[k].update_available})

\* lines 155-161
Summary ==
  /\ pc = "summary"
  /\ LET updates_available == UpdatesAvailable(results)
     IN  out' =
           IF updates_available # 0
           THEN LET counted == Append(out, Say("update(s) available.", <<>>, updates_available))
                IN  IF ~args.update
                    THEN Append(counted, Say("Run with --update to apply updates.", <<>>, 0))
                    ELSE counted
           ELSE Append(out, Say("All packages are up to date.", <<>>, 0))
  /\ pc' = "done"
  /\ UNCHANGED <<args, file, packages, idx, result, results, exc, calls>>

Next ==
  \/ Main
  \/ CheckRequirementsFile
  \/ GetInstalledVersion
  \/ GetLatestVersion
  \/ CompareVersions
  \/ UpdatePackage
  \/ Summary

Spec == Init /\ [][Next]_vars

(***************************************************************************)
(* Properties                                                              *)
(***************************************************************************)
\* the result of the k-th package: returned already, or still being filled
ResultAt(k) == IF k <= Len(results) THEN results[k] ELSE result

CallsOf(op, k) == {c \in 1..Len(calls) : calls[c].op = op /\ calls[c].at = k}

Printed(msg) == {m \in 1..Len(out) : out[m].msg = msg}

FromManifest == ~IsNone(args.requirements)

\* the name pattern of the specification, read off the text of section 4.2:
\* alphanumeric at both ends, letters, digits, '.', '_' and '-' between
FailsNamePattern(s) ==
  ~(\/ IsName(s)
    \/ Len(s) >= 2 /\ s[Len(s)] = "\n" /\ IsName(SubSeq(s, 1, Len(s) - 1)))

\* the versions of the inputs in ascending release order
ReleaseRank(v) ==
  CASE v = V120 -> 1 [] v = V130 -> 2 [] v = V190 -> 3 [] v = V1100 -> 4
    [] v = V200 -> 5 [] OTHER -> 0

\* C1: for a package name that fails the name pattern, get_latest_version
\* returns None and no GET is made: every GET is for a name that passes, and a
\* result whose name fails has no latest version.
C1_InvalidNameNoNetworkCall ==
  /\ \A c \in 1..Len(calls) :
       calls[c].op = "get" => ~FailsNamePattern(calls[c].package)
  /\ \A k \in 1..Len(results) :
       FailsNamePattern(results[k].package) => IsNone(results[k].latest)
  /\ pc \in {"compare", "upgrade"} => ~FailsNamePattern(result.package)

C1_Witness ==
  \E k \in 1..Len(results) :
    /\ FailsNamePattern(results[k].package)
    /\ ~IsNone(results[k].installed)
    /\ IsNone(results[k].latest)
    /\ CallsOf("get", k) = {}

\* C2: a package pip reports as not installed gets the result installed=None,
\* latest=None, update_available=False, updated=False; nothing but the show
\* command ran for it, with or without --update.
C2_NotInstalledShortCircuits ==
  /\ \A k \in 1..Len(results) :
       IsNone(results[k].installed) =>
         /\ IsNone(results[k].latest)
         /\ ~results[k].update_available
         /\ ~results[k].updated
         /\ CallsOf("get", k) = {}
         /\ CallsOf("upgrade", k) = {}
  /\ \A c \in 1..Len(calls) :
       (calls[c].op = "show" /\ ~calls[c].ok /\ calls[c].at <= Len(results))
         => IsNone(results[calls[c].at].installed)
  /\ pc \in {"fetch", "compare", "upgrade"} => ~IsNone(result.installed)

C2_Witness ==
  /\ pc = "done"
  /\ args.update
  /\ \E k \in 1..Len(results) :
       IsNone(results[k].installed) /\ CallsOf("show", k) # {}

\* C3: updated is true only if the upgrade ran and succeeded; the upgrade runs
\* at most once for a package, and only with --update, both versions present
\* and installed < latest; without --update it never runs.
C3_UpgradeOnlyWhenRequested ==
  /\ \A k \in 1..Len(results) :
       results[k].updated => \E c \in CallsOf("upgrade", k) : calls[c].ok
  /\ \A k \in 1..Len(packages) : Cardinality(CallsOf("upgrade", k)) <= 1
  /\ \A c \in 1..Len(calls) :
       calls[c].op = "upgrade" =>
         LET r == ResultAt(calls[c].at)
         IN  /\ args.update
             /\ ~IsNone(r.installed)
             /\ ~IsNone(r.latest)
             /\ r.update_available
             /\ ReleaseRank(Val(r.installed)) < ReleaseRank(Val(r.latest))
  /\ ~args.update => \A c \in 1..Len(calls) : calls[c].op # "upgrade"

C3_Witness ==
  \E k \in 1..Len(results) :
    results[k].updated /\ CallsOf("upgrade", k) # {}

\* C4: no error is fatal to the run; in particular a version string that does
\* not parse never ends the run while packages of the manifest are left.
C4_NoErrorIsFatal ==
  ~(pc = "crashed" /\ exc.type = "InvalidVersion" /\ idx < Len(packages))

\* C5: get_latest_version never raises, whatever the GET and the body are.
C5_LatestLookupNeverRaises == exc.raised_in # "get_latest_version"

\* C6: get_installed_version lets no exception escape, whatever the show
\* command does.
C6_InstalledLookupNeverRaises == exc.raised_in # "get_installed_version"

\* C7: with both versions present update_available is (installed < latest) in
\* numeric release order, so (1.2.0, 1.3.0) is true, (2.0.0, 2.0.0) and
\* (1.10.0, 1.9.0) are false; with a version absent the flag is false.
C7_UpdateAvailableIsNumericLess ==
  \A k \in 1..Len(results) :
    LET r == results[k]
    IN  IF IsNone(r.installed) \/ IsNone(r.latest)
        THEN ~r.update_available
        ELSE /\ r.update_available
                  = (ReleaseRank(Val(r.installed)) < ReleaseRank(Val(r.latest)))
             /\ (r.installed = Some(V120) /\ r.latest = Some(V130)) => r.update_available
             /\ (r.installed = Some(V200) /\ r.latest = Some(V200)) => ~r.update_available
             /\ (r.installed = Some(V1100) /\ r.latest = Some(V190)) => ~r.update_available

C7_Witness ==
  \E k \in 1..Len(results) :
    /\ results[k].installed = Some(V1100)
    /\ results[k].latest = Some(V190)
    /\ ~results[k].update_available

\* C8: the count main prints is the number of results with update_available,
\* with or without --update and whatever the upgrades did; "All packages are up
\* to date." is printed exactly when that number is zero.
C8_SummaryCountsUpdateAvailable ==
  pc = "done" =>
    LET n == Cardinality({k \in 1..Len(results) : results[k].update_available})
    IN  /\ \A m \in Printed("update(s) available.") : out[m].n = n
        /\ (n # 0) <=> (Printed("update(s) available.") # {})
        /\ (n = 0) <=> (Printed("All packages are up to date.") # {})

C8_Witness ==
  /\ pc = "done"
  /\ args.update
  /\ \E k \in 1..Len(results) : results[k].update_available /\ ~results[k].updated
  /\ Printed("update(s) available.") # {}

\* C9: with a requirements path that does not exist the reader prints the
\* error, returns no result, raises nothing and runs no show, GET or upgrade;
\* the run goes on to the summary.
C9_MissingManifestIsEmpty ==
  (FromManifest /\ file.status = "missing" /\ pc \notin {"main", "read"}) =>
    /\ pc \in {"summary", "done"}
    /\ exc = NoExc
    /\ results = <<>>
    /\ calls = <<>>
    /\ Printed("Error: requirements file not found.") # {}

C9_Witness ==
  /\ FromManifest
  /\ file.status = "missing"
  /\ pc = "done"
  /\ Printed("Error: requirements file not found.") # {}

\* the name each line of the inputs stands for, by the rules of section 4.6:
\* none for a blank line, a comment or a line with no leading name
ExpectedName(line) ==
  CASE line = LineExtras -> Some(Requests)
    [] line = LinePinned -> Some(Flask)
    [] line = LineTrailing -> Some(MyPkg)
    [] OTHER -> None

RECURSIVE ExpectedNames(_)
ExpectedNames(lines) ==
  IF lines = <<>> THEN <<>>
  ELSE ExpectedName(Head(lines)) \o ExpectedNames(Tail(lines))

\* C10: the reader skips blank and comment lines and takes the leading name of
\* every other line; the results are one per name, in file order, and a
\* package is finished before the next one is started.
C10_ManifestOrder ==
  /\ (FromManifest /\ file.status = "ok" /\ pc \notin {"main", "read"}) =>
       LET want == ExpectedNames(file.lines)
       IN  /\ Len(results) <= Len(want)
           /\ \A k \in 1..Len(results) : results[k].package = want[k]
           /\ pc \in {"summary", "done"} => Len(results) = Len(want)
  /\ \A c \in 1..Len(calls) :
       /\ \A d \in 1..Len(calls) : c < d => calls[c].at <= calls[d].at
       /\ calls[c].at > Len(results) =>
            calls[c].at = idx /\ pc \in {"fetch", "compare", "upgrade", "crashed"}

C10_Witness ==
  /\ pc = "done"
  /\ file.lines = <<LineExtras, LinePinned>>
  /\ Len(results) = 2
  /\ results[1].package = Requests
  /\ results[2].package = Flask

====
